---- MODULE Spec2Model ----
(***************************************************************************)
(* A model of automake-maker: maker.py (the fragment renderer and the      *)
(* filtering predicates) and implementation.py (the tree walker and main). *)
(*                                                                         *)
(* Text.  A Python str is modelled as a sequence of atoms.  An atom is a   *)
(* run of characters the program never looks inside.  In every string the  *)
(* program searches, replaces in, compares or splits, each character it    *)
(* looks for is an atom of its own: "/" (os.path), "-" and "_"             *)
(* (str.replace), "\\" and the blanks " " and "    " (the continuation     *)
(* marker and the indentation), "\n" (str.splitlines), the word "include"  *)
(* (the substring tests of main and make_recursive_include) and the file   *)
(* extensions (str.endswith).  Names and paths are written in this one     *)
(* tokenisation, so equality of atom sequences is equality of the strings. *)
(* The separator banner and the printed messages are only concatenated and *)
(* stay whole.                                                             *)
(***************************************************************************)
EXTENDS Naturals, Sequences, FiniteSets, TLC

VARIABLES
    repo,            \* what git.Repo("./") finds: "none", "wrong" or "ok"
    onDisk,          \* the files present in the working tree
    tracked,         \* the output of git ls-tree -r --name-only HEAD
    order,           \* the order in which the OS lists directory entries
    content,         \* the text of each output file on disk
    pc,              \* the position of main
    chunk,           \* main's local variable chunk
    writes,          \* the calls of string_to_file so far: path, mode, text
    stdout,          \* the lines printed so far
    exitStatus,      \* the status the process ended with, or "running"
    cached_roots,    \* relative_filepath_is_tracked_by_git.cached_roots
    git_root_calls,  \* how often git_root was queried
    call,            \* the renderer call under test: function and arguments
    ret              \* what that call returned

fsVars == <<repo, onDisk, tracked, order>>
mainVars == <<content, pc, chunk, writes, stdout, exitStatus, cached_roots, git_root_calls>>
callVars == <<call, ret>>
vars == <<repo, onDisk, tracked, order, content, pc, chunk, writes, stdout,
          exitStatus, cached_roots, git_root_calls, call, ret>>

(***************************************************************************)
(* Bounds.                                                                 *)
(***************************************************************************)
MaxTargets == 3
MaxFiles == 2

(***************************************************************************)
(* str operations, on atom sequences.                                      *)
(***************************************************************************)
BSLASH == "\\"
NL == "\n"
SLASH == "/"

RECURSIVE Cat(_)
Cat(ss) == IF ss = <<>> THEN <<>> ELSE Head(ss) \o Cat(Tail(ss))

Range(s) == {s[i] : i \in 1..Len(s)}

\* s.endswith(suf)
EndsWith(s, suf) ==
    /\ Len(suf) <= Len(s)
    /\ SubSeq(s, Len(s) - Len(suf) + 1, Len(s)) = suf

StartsWith(s, pre) ==
    /\ Len(pre) <= Len(s)
    /\ SubSeq(s, 1, Len(pre)) = pre

\* needle in s
Contains(s, needle) ==
    \E i \in 1..(Len(s) + 1) :
        /\ i + Len(needle) - 1 <= Len(s)
        /\ SubSeq(s, i, i + Len(needle) - 1) = needle

\* s.replace(old, new), old and new single characters
Replace(s, old, new) == [i \in 1..Len(s) |-> IF s[i] = old THEN new ELSE s[i]]

\* s.replace(c, ''), for a character c that makes up whole atoms
Blank(a) == a \in {" ", "    "}
NotBackslash(a) == a # BSLASH
NotBlank(a) == ~Blank(a)
StripBackslashAndBlanks(s) == SelectSeq(SelectSeq(s, NotBackslash), NotBlank)

\* s.splitlines(): the pieces between line ends; no empty last piece
LineStarts(s) == {1} \cup {i + 1 : i \in {j \in 1..Len(s) : s[j] = NL}}
LineEnd(s, b) ==
    IF \E j \in b..Len(s) : s[j] = NL
    THEN (CHOOSE j \in b..Len(s) : s[j] = NL /\ \A k \in b..(j - 1) : s[k] # NL) - 1
    ELSE Len(s)
RECURSIVE Ascending(_)
Ascending(S) ==
    IF S = {} THEN <<>>
    ELSE LET m == CHOOSE x \in S : \A y \in S : x <= y
         IN  <<m>> \o Ascending(S \ {m})
splitlines(s) ==
    LET starts == Ascending({b \in LineStarts(s) : b <= Len(s)})
    IN  [k \in 1..Len(starts) |-> SubSeq(s, starts[k], LineEnd(s, starts[k]))]

(***************************************************************************)
(* maker.py: the fragment renderer.                                        *)
(***************************************************************************)
horizontal_space == <<NL, NL>>
vertical_space == <<"    ">>
horizontal_separator == <<"#-------------------------------------------------------------------------------#">>
horizontal_divide == horizontal_space \o horizontal_separator \o horizontal_space

\* the body of the loop of basic_maker_string for targets[i]
TargetText(targets, i) ==
    vertical_space \o targets[i] \o
        (IF targets[i] # targets[Len(targets)] THEN <<BSLASH, NL>> ELSE <<>>)

basic_maker_string(variable, operator, targets) ==
    variable \o <<" ", operator, " ", BSLASH, NL>>
        \o Cat([i \in 1..Len(targets) |-> TargetText(targets, i)])

KeywordTextNoSkip(prefix, kw) ==
    <<NL>> \o basic_maker_string(prefix \o <<"_">> \o kw[1], "=", kw[2])

\* kwargs is the keyword dictionary in its iteration order: <<key, values>> pairs
KeywordText(prefix, kw) ==
    IF Len(kw[2]) = 0 THEN <<>>
    ELSE <<NL>> \o basic_maker_string(prefix \o <<"_">> \o kw[1], "=", kw[2])

LibraryPrefixNoRewrite(libname) == libname \o <<"_", "la">>
LibraryPrefix(libname) == Replace(libname, "-", "_") \o <<"_", "la">>

make_add_to_LTLIBRARIES(libname, LT_prefix, kwargs) ==
    basic_maker_string(LT_prefix \o <<"_", "LTLIBRARIES">>, "+=", <<libname \o <<".la">>>>)
        \o Cat([i \in 1..Len(kwargs) |-> KeywordText(LibraryPrefix(libname), kwargs[i])])

ProgramPrefix(program_name) == Replace(program_name, "-", "_")

make_add_to_PROGRAMS(program_name, PROGRAMS_prefix, kwargs) ==
    basic_maker_string(PROGRAMS_prefix \o <<"_", "PROGRAMS">>, "+=", <<program_name>>)
        \o Cat([i \in 1..Len(kwargs) |-> KeywordText(ProgramPrefix(program_name), kwargs[i])])

make_add_to_EXTRA_DIST(files) ==
    IF Len(files) = 0 THEN <<>>
    ELSE basic_maker_string(<<"EXTRA_DIST">>, "+=", files)

\* os.path.join("$(includedir)", includedir)
make_HEADERS(includedir, files) ==
    LET flattened == Replace(includedir, SLASH, "_")
    IN  flattened \o <<"_", "include", "dir", "=", "$(", "include", "dir)", SLASH>> \o includedir
            \o <<NL>>
            \o basic_maker_string(flattened \o <<"_", "include", "_", "HEADERS">>, "=", files)

(***************************************************************************)
(* maker.py: the filtering predicates.                                     *)
(***************************************************************************)
header_extensions == <<".h", ".hh", ".hpp">>
source_extensions == <<".c", ".cc", ".cxx", ".cpp">>
header_and_source_extensions == header_extensions \o source_extensions

has_header_extension(filepath) ==
    \E i \in 1..Len(header_extensions) : EndsWith(filepath, <<header_extensions[i]>>)

has_source_extension(filepath) ==
    \E i \in 1..Len(source_extensions) : EndsWith(filepath, <<source_extensions[i]>>)

\* os.path.split: the part before the last separator, and the part after it
LastSlash(p) ==
    IF \E i \in 1..Len(p) : p[i] = SLASH
    THEN CHOOSE i \in 1..Len(p) : p[i] = SLASH /\ \A j \in (i + 1)..Len(p) : p[j] # SLASH
    ELSE 0

dirname(p) == IF LastSlash(p) <= 1 THEN SubSeq(p, 1, LastSlash(p)) ELSE SubSeq(p, 1, LastSlash(p) - 1)
basename(p) == SubSeq(p, LastSlash(p) + 1, Len(p))

\* os.path.normpath, as far as the program needs it: no separator at the end
RECURSIVE normpath(_)
normpath(p) ==
    IF Len(p) > 1 /\ p[Len(p)] = SLASH THEN normpath(SubSeq(p, 1, Len(p) - 1)) ELSE p

\* os.path.join(a, b) for a relative b
join(a, b) == IF a = <<>> \/ a[Len(a)] = SLASH THEN a \o b ELSE a \o <<SLASH>> \o b

ignorable == {<<".gitignore">>}
NotIgnorable(f) == basename(f) \notin ignorable
NotIgnorableWholePath(f) == f \notin ignorable
purge_whole_path_matches(file_list) == SelectSeq(file_list, NotIgnorableWholePath)
purge_git_related_files(file_list) == SelectSeq(file_list, NotIgnorable)

(***************************************************************************)
(* The working tree.  The files a checkout may hold under the roots the    *)
(* program scans, in the order the OS lists them, and the files a checkout *)
(* always holds.                                                           *)
(***************************************************************************)
tests_unit == <<"tests", SLASH, "unit">>
WidgetDir == <<"tests", SLASH, "unit", SLASH, "Widget">>
EigenDir == <<"include", SLASH, "casm", SLASH, "external", SLASH, "Eigen">>
gtest_main_run_all ==
    <<"tests", SLASH, "unit", SLASH, "gtest", "_", "main", "_", "run", "_", "all", ".cpp">>
gtest_all ==
    <<"submodules", SLASH, "googletest", SLASH, "googletest", SLASH, "src", SLASH,
      "gtest", "-", "all", ".cc">>
ccasm_cpp == <<"apps", SLASH, "ccasm", SLASH, "ccasm", ".cpp">>
complete_cpp == <<"apps", SLASH, "completer", SLASH, "complete", ".cpp">>
completer_casm == <<"apps", SLASH, "completer", SLASH, "casm">>

Widget_test == WidgetDir \o <<SLASH, "Widget", "_", "test", ".cpp">>
Gadget_test == WidgetDir \o <<SLASH, "Gadget", "_", "test", ".cpp">>
scratch_log == WidgetDir \o <<SLASH, "scratch", ".log">>
Widget_gitignore == WidgetDir \o <<SLASH, ".gitignore">>
skipped_test == <<"tests", SLASH, "unit", SLASH, "test", "_", "projects", SLASH, "skip", "_", "test", ".cpp">>
TestSupport == <<"tests", SLASH, "unit", SLASH, "TestSupport", ".cpp">>
foo_hpp == <<"include", SLASH, "casm", SLASH, "foo", ".hpp">>
nested_notes == <<"include", SLASH, "casm", SLASH, "include", SLASH, "casm", SLASH, "notes", ".txt">>
Eigen_Core == EigenDir \o <<SLASH, "Core">>
Eigen_foo_cpp == EigenDir \o <<SLASH, "foo", ".cpp">>
misc_Core == <<"include", SLASH, "casm", SLASH, "misc", SLASH, "Core">>
src_a_cpp == <<"src", SLASH, "casm", SLASH, "a", ".cpp">>

Universe ==
    <<Widget_test, scratch_log, Gadget_test, Widget_gitignore, skipped_test, TestSupport,
      gtest_main_run_all, foo_hpp, nested_notes, Eigen_Core, Eigen_foo_cpp, misc_Core,
      src_a_cpp>>

\* present and committed in every checkout of the project
AlwaysOnDisk == {gtest_main_run_all}
AlwaysTracked == {gtest_main_run_all, gtest_all, ccasm_cpp, complete_cpp, completer_casm}
Optional == Range(Universe) \ AlwaysOnDisk

Reverse(s) == [i \in 1..Len(s) |-> s[Len(s) + 1 - i]]
IsOnDisk(p) == p \in onDisk
\* the files on disk, in the order the OS lists them
DiskSeq == SelectSeq(IF order = "fwd" THEN Universe ELSE Reverse(Universe), IsOnDisk)

Under(p, d) == Len(p) > Len(d) + 1 /\ StartsWith(p, d \o <<SLASH>>)
FirstComponent(r) ==
    IF \E i \in 1..Len(r) : r[i] = SLASH
    THEN SubSeq(r, 1, (CHOOSE i \in 1..Len(r) : r[i] = SLASH /\ \A j \in 1..(i - 1) : r[j] # SLASH) - 1)
    ELSE r

RECURSIVE Dedup(_, _)
Dedup(s, acc) ==
    IF s = <<>> THEN acc
    ELSE Dedup(Tail(s), IF Head(s) \in Range(acc) THEN acc ELSE Append(acc, Head(s)))

\* os.listdir(d): the names of the entries of d, files and directories
listdir(d) ==
    LET under == SelectSeq(DiskSeq, LAMBDA p : Under(p, d))
    IN  Dedup([i \in 1..Len(under) |-> FirstComponent(SubSeq(under[i], Len(d) + 2, Len(under[i])))],
              <<>>)

isfile(p) == p \in onDisk
isdir(p) == \E q \in onDisk : Under(q, p)

\* [dirpath for dirpath, dirnames, files in os.walk(d)]: top down
RECURSIVE walk(_)
walk(d) ==
    LET names == listdir(d)
        subs == SelectSeq([i \in 1..Len(names) |-> join(d, names[i])], isdir)
    IN  <<d>> \o Cat([i \in 1..Len(subs) |-> walk(subs[i])])

\* glob.glob(os.path.join(directory, "*" + ext)): "*" matches no leading dot
DotAtoms == {".gitignore", ".h", ".hh", ".hpp", ".c", ".cc", ".cxx", ".cpp", ".log", ".txt", ".la"}
glob_star(directory, ext) ==
    LET names == listdir(directory)
        hit == SelectSeq(names, LAMBDA n : EndsWith(n, <<ext>>) /\ n[1] \notin DotAtoms)
    IN  [i \in 1..Len(hit) |-> join(directory, hit[i])]

files_with_extension_at_directory(extensions, directory) ==
    Cat([i \in 1..Len(extensions) |-> glob_star(directory, extensions[i])])

(***************************************************************************)
(* maker.py: the tracked-by-git predicate.                                 *)
(***************************************************************************)
\* os.getcwd(): git.Repo("./") does not search the parent directories, so the
\* repository main found has the working directory as its working_dir
NoRepo == <<>>
cwd == IF repo = NoRepo THEN <<SLASH, "tmp">> ELSE repo
\* git rev-parse --show-toplevel; main has checked that "./" is the top level
git_root(path) == path
\* os.path.relpath(filename, root), filename relative to the working directory
relpath(filename, root) ==
    LET abs == join(cwd, filename)
    IN  IF Under(abs, root) THEN SubSeq(abs, Len(root) + 2, Len(abs)) ELSE <<"..">> \o abs

all_files_tracked_by_git == tracked

relative_filepath_is_tracked_by_git(filename) ==
    relpath(filename, git_root(cwd)) \in all_files_tracked_by_git

purge_untracked_files(file_list) == SelectSeq(file_list, relative_filepath_is_tracked_by_git)

(***************************************************************************)
(* implementation.py: the fragments.                                       *)
(***************************************************************************)
flagify(lib) == <<"$(BOOST", "_">> \o lib \o <<"_", "LIB)">>
all_boost_LDADD_flags ==
    <<flagify(<<"SYSTEM">>), flagify(<<"FILESYSTEM">>), flagify(<<"PROGRAM", "_", "OPTIONS">>),
      flagify(<<"REGEX">>), flagify(<<"CHRONO">>)>>

AM_CPPFLAGS == <<"$(AM", "_", "CPPFLAGS)">>
libcasm_la == <<"libcasm", ".la">>

make_libgtest ==
    make_add_to_LTLIBRARIES(<<"libgtest">>, <<"check">>,
        << <<<<"SOURCES">>, <<gtest_all>>>>,
           <<<<"CPPFLAGS">>, <<AM_CPPFLAGS, <<"-", "DGTEST", "_", "HAS", "_", "PTHREAD=0">>,
                               <<"-", "DGTEST", "_", "LINKED", "_", "AS", "_", "SHARED", "_", "LIBRARY=1">>>>>> >>)

test_suffix == <<"_", "test", ".cpp">>
IsTestSource(f) == EndsWith(f, test_suffix)

\* the lists make_unit_test builds
unit_last_directory(unit_test_directory) == basename(normpath(unit_test_directory))
unit_test_name(unit_test_directory) ==
    <<"casm", "_", "unit", "_">> \o unit_last_directory(unit_test_directory)
unit_all_dir_files_relative(unit_test_directory) ==
    LET names == listdir(unit_test_directory)
    IN  [i \in 1..Len(names) |-> join(unit_test_directory, names[i])]
unit_only_makeable_files(unit_test_directory) ==
    purge_git_related_files(purge_untracked_files(unit_all_dir_files_relative(unit_test_directory)))
unit_source_files(unit_test_directory) ==
    SelectSeq(unit_only_makeable_files(unit_test_directory), IsTestSource) \o <<gtest_main_run_all>>
unit_extra_files(unit_test_directory) ==
    LET source_files == unit_source_files(unit_test_directory)
    IN  SelectSeq(unit_only_makeable_files(unit_test_directory), LAMBDA f : f \notin Range(source_files))

make_unit_test(unit_test_directory) ==
    LET test_name == unit_test_name(unit_test_directory)
        ldadd == <<libcasm_la, <<"libcasmtesting", ".la">>>> \o all_boost_LDADD_flags
    IN  basic_maker_string(<<"TESTS">>, "+=", <<test_name>>)
            \o <<NL>>
            \o make_add_to_PROGRAMS(test_name, <<"check">>,
                   << <<<<"SOURCES">>, unit_source_files(unit_test_directory)>>,
                      <<<<"LDADD">>, ldadd>>,
                      <<<<"CPPFLAGS">>, <<AM_CPPFLAGS,
                          <<"-", "I$(top", "_", "srcdir)", SLASH, "tests", SLASH, "unit", SLASH>>>>>> >>)
            \o <<NL>>
            \o make_add_to_EXTRA_DIST(unit_extra_files(unit_test_directory))

libcasmtesting_candidates ==
    SelectSeq(files_with_extension_at_directory(header_and_source_extensions, tests_unit),
              LAMBDA f : ~Contains(f, <<"gtest", "_", "main", "_", "run", "_", "all">>))

make_libcasmtesting ==
    make_add_to_LTLIBRARIES(<<"libcasmtesting">>, <<"check">>,
        << <<<<"SOURCES">>, purge_untracked_files(libcasmtesting_candidates)>>,
           <<<<"CPPFLAGS">>, <<AM_CPPFLAGS,
               <<"-", "DABS", "_", "SRCDIR=", BSLASH, "\"$(abs", "_", "srcdir)", BSLASH, "\"">>,
               <<"-", "DABS", "_", "TOP", "_", "BUILDDIR=", BSLASH, "\"$(abs", "_", "top", "_", "builddir)", BSLASH, "\"">>>>>>,
           <<<<"LIBADD">>, <<<<"libgtest", ".la">>>>>> >>)

test_directories ==
    LET names == listdir(tests_unit)
    IN  SelectSeq([i \in 1..Len(names) |-> join(tests_unit, names[i])],
                  LAMBDA name : isdir(name) /\ ~Contains(name, <<"test", "_", "projects">>))

make_aggregated_unit_test ==
    horizontal_divide \o make_libgtest \o horizontal_divide
        \o make_libcasmtesting \o horizontal_divide
        \o Cat([i \in 1..Len(test_directories) |->
                   make_unit_test(test_directories[i]) \o horizontal_divide])

is_extensionless_Eigen_header(filepath) == dirname(filepath) = EigenDir

include_available_files(includeable_path) ==
    LET names == listdir(includeable_path)
    IN  SelectSeq([i \in 1..Len(names) |-> join(includeable_path, names[i])], isfile)

IsHeaderFile(f) == is_extensionless_Eigen_header(f) \/ has_header_extension(f)

include_only_header_files(includeable_path) ==
    SelectSeq(purge_untracked_files(include_available_files(includeable_path)), IsHeaderFile)

\* includeable_path[8::] drops "include/"
make_include(includeable_path) ==
    make_HEADERS(SubSeq(includeable_path, 3, Len(includeable_path)),
                 include_only_header_files(includeable_path))

IncludeKept(search_root, candidate) == Contains(candidate, search_root)

make_recursive_include(search_root) ==
    LET dirpaths == walk(search_root)
    IN  horizontal_divide
            \o Cat([i \in 1..Len(dirpaths) |->
                       LET candidate == make_include(dirpaths[i])
                       IN  IF IncludeKept(search_root, candidate)
                           THEN candidate \o horizontal_divide
                           ELSE <<>>])

make_ccasm ==
    make_add_to_PROGRAMS(<<"ccasm">>, <<"bin">>,
        << <<<<"SOURCES">>, <<ccasm_cpp>>>>,
           <<<<"LDADD">>, <<libcasm_la>> \o all_boost_LDADD_flags>> >>)

make_casm_complete ==
    <<"if", " ", "ENABLE", "_", "BASH", "_", "COMPLETION", NL>>
        \o <<"bashcompletiondir=$(BASH", "_", "COMPLETION", "_", "DIR)", NL, NL>>
        \o basic_maker_string(<<"dist", "_", "bashcompletion", "_", "DATA">>, "=", <<completer_casm>>)
        \o <<NL>>
        \o make_add_to_PROGRAMS(<<"casm", "-", "complete">>, <<"bin">>,
               << <<<<"SOURCES">>, <<complete_cpp>>>>,
                  <<<<"LDADD">>, <<libcasm_la>> \o all_boost_LDADD_flags>> >>)
        \o <<NL, NL, "endif">>

lib_source_files(search_root) ==
    LET dirpaths == walk(search_root)
    IN  Cat([i \in 1..Len(dirpaths) |->
                LET names == SelectSeq(listdir(dirpaths[i]),
                                       LAMBDA n : isfile(join(dirpaths[i], n)) /\ has_source_extension(n))
                IN  [j \in 1..Len(names) |-> join(dirpaths[i], names[j])]])

make_lib(libname, search_root, additional_sources, kwargs) ==
    make_add_to_LTLIBRARIES(libname, <<"lib">>,
        << <<<<"SOURCES">>, lib_source_files(search_root) \o additional_sources>> >> \o kwargs)

make_libcasm(additional_sources) ==
    make_lib(<<"libcasm">>, <<"src", SLASH, "casm">>, additional_sources,
        << <<<<"LIBADD">>, all_boost_LDADD_flags>>,
           <<<<"LDFAGS">>, << <<"-", "avoid", "-", "version">>, <<"$(BOOST", "_", "LDFLAGS)">> >> >> >>)

make_libccasm(additional_sources) ==
    make_lib(<<"libccasm">>, <<"src", SLASH, "ccasm">>, additional_sources,
        << <<<<"LDFAGS">>, << <<"-", "avoid", "-", "version">> >> >> >>)
        \o <<NL, "src", SLASH, "casm", SLASH, "version", SLASH, "autoversion", ".lo:", " ", ".FORCE">>

\* main: the header paths read back from the text of the include fragment
header_files_of(text) ==
    LET lines == SelectSeq(splitlines(text), LAMBDA f : Contains(f, <<"include", SLASH>>))
    IN  [i \in 1..Len(lines) |-> StripBackslashAndBlanks(lines[i])]

(***************************************************************************)
(* What the fragments print, and how often they ask whether a file is      *)
(* tracked.                                                                *)
(***************************************************************************)
aggregated_unit_test_prints ==
    << <<"Create Makefile segment for libgtest">>,
       <<"Create Makefile segment for libcasmtesting">> >>
        \o [i \in 1..Len(test_directories) |->
               <<"Create Makefile segment for unit test ">> \o test_directories[i]]

aggregated_unit_test_checks ==
    LET RECURSIVE Sum(_)
        Sum(i) == IF i = 0 THEN 0
                  ELSE Len(unit_all_dir_files_relative(test_directories[i])) + Sum(i - 1)
    IN  Len(libcasmtesting_candidates) + Sum(Len(test_directories))

recursive_include_prints(search_root) ==
    LET dirpaths == walk(search_root)
    IN  Cat([i \in 1..Len(dirpaths) |->
                << <<"Create Makefile segment for headers in ">> \o dirpaths[i] >>
                    \o (IF IncludeKept(search_root, make_include(dirpaths[i])) THEN <<>>
                        ELSE << <<"Skipping ">> \o dirpaths[i]
                                   \o <<" because there are no headers there...">> >>)])

recursive_include_checks(search_root) ==
    LET dirpaths == walk(search_root)
        RECURSIVE Sum(_)
        Sum(i) == IF i = 0 THEN 0 ELSE Len(include_available_files(dirpaths[i])) + Sum(i - 1)
    IN  Sum(Len(dirpaths))

\* the first lines of relative_filepath_is_tracked_by_git, once
NeedsRootQuery(cache, c) == c \notin DOMAIN cache \/ TRUE
CheckOnce(st) ==
    IF NeedsRootQuery(st.cache, cwd)
    THEN [cache |-> [c \in DOMAIN st.cache \cup {cwd} |->
                        IF c = cwd THEN git_root(cwd) ELSE st.cache[c]],
          calls |-> st.calls + 1]
    ELSE st

RECURSIVE AfterChecks(_, _)
AfterChecks(st, n) == IF n = 0 THEN st ELSE AfterChecks(CheckOnce(st), n - 1)

(***************************************************************************)
(* implementation.py: main.                                                *)
(***************************************************************************)
ProjectName == <<"CASMcode", "-", "dev">>
ProjectDir == <<SLASH, "home", SLASH, "CASMcode", "-", "dev">>
OtherDir == <<SLASH, "home", SLASH, "scratch">>

Makemodule(dir) == join(dir, <<"Makemodule", ".am">>)
ccasm_target == Makemodule(<<"apps", SLASH, "ccasm">>)
completer_target == Makemodule(<<"apps", SLASH, "completer">>)
unit_target == Makemodule(tests_unit)
include_casm_target == Makemodule(<<"include", SLASH, "casm">>)
src_casm_target == Makemodule(<<"src", SLASH, "casm">>)
include_ccasm_target == Makemodule(<<"include", SLASH, "ccasm">>)
src_ccasm_target == Makemodule(<<"src", SLASH, "ccasm">>)
OutputPaths ==
    {ccasm_target, completer_target, unit_target, include_casm_target, src_casm_target,
     include_ccasm_target, src_ccasm_target}

\* open(filepath, 'w')
OpenModeAppend == "a"
OpenMode == "w"
Opened(old, mode) == IF mode = "w" THEN <<>> ELSE old

string_to_file(string, filepath) ==
    /\ content' = [content EXCEPT ![filepath] = Opened(content[filepath], OpenMode) \o string]
    /\ writes' = Append(writes, [path |-> filepath, mode |-> OpenMode, text |-> string])

\* exit(): SystemExit with no code; no handler of main catches it
ExitFallsThrough == [pc |-> "ccasm", exitStatus |-> <<>>]
ExitCall == [pc |-> "exited", exitStatus |-> <<0>>]

BadRunDirectory == repo = NoRepo \/ basename(repo) # ProjectName

Guard ==
    /\ pc = "start"
    /\ IF BadRunDirectory
       THEN /\ stdout' = Append(stdout,
                   <<"This script must be run from the root directory of the CASMcode-dev repo.">>)
            /\ pc' = ExitCall.pc
            /\ exitStatus' = ExitCall.exitStatus
       ELSE /\ pc' = "ccasm"
            /\ UNCHANGED <<stdout, exitStatus>>
    /\ UNCHANGED <<fsVars, content, chunk, writes, cached_roots, git_root_calls, callVars>>

\* one generation step of main: the fragment, what it printed, its tracked queries
Step(here, text, printed, checks, target, next) ==
    /\ pc = here
    /\ chunk' = text
    /\ stdout' = stdout \o printed
    /\ LET st == AfterChecks([cache |-> cached_roots, calls |-> git_root_calls], checks)
       IN  /\ cached_roots' = st.cache
           /\ git_root_calls' = st.calls
    /\ string_to_file(chunk', target)
    /\ pc' = next
    /\ exitStatus' = IF next = "done" THEN <<0>> ELSE exitStatus
    /\ UNCHANGED <<fsVars, callVars>>

WriteCcasm ==
    Step("ccasm", make_ccasm, << <<"Create Makefile for ccasm program">> >>, 0,
         ccasm_target, "completer")

WriteCompleter ==
    Step("completer", make_casm_complete, << <<"Create Makefile for casm-complete program">> >>, 0,
         completer_target, "unit")

WriteUnit ==
    Step("unit", make_aggregated_unit_test, aggregated_unit_test_prints,
         aggregated_unit_test_checks, unit_target, "include_casm")

WriteIncludeCasm ==
    Step("include_casm", make_recursive_include(<<"include", SLASH, "casm">>),
         recursive_include_prints(<<"include", SLASH, "casm">>),
         recursive_include_checks(<<"include", SLASH, "casm">>),
         include_casm_target, "libcasm")

WriteLibcasm ==
    Step("libcasm", make_libcasm(header_files_of(chunk)), <<>>, 0, src_casm_target,
         "include_ccasm")

WriteIncludeCcasm ==
    Step("include_ccasm", make_recursive_include(<<"include", SLASH, "ccasm">>),
         recursive_include_prints(<<"include", SLASH, "ccasm">>),
         recursive_include_checks(<<"include", SLASH, "ccasm">>),
         include_ccasm_target, "libccasm")

WriteLibccasm ==
    Step("libccasm", make_libccasm(header_files_of(chunk)), <<>>, 0, src_ccasm_target, "done")

NoCall == [fn |-> "none", name |-> <<>>, prefix |-> <<>>, operator |-> "", targets |-> <<>>,
           kwargs |-> <<>>]

Init ==
    /\ repo \in {NoRepo, ProjectDir, OtherDir}
    /\ \E S \in SUBSET Optional :
          /\ Cardinality(S) <= MaxFiles
          /\ onDisk = AlwaysOnDisk \cup S
          /\ \E T \in SUBSET S : tracked = AlwaysTracked \cup T
    /\ order \in {"fwd", "rev"}
    /\ content \in {[p \in OutputPaths |-> <<>>], [p \in OutputPaths |-> <<"stale", NL>>]}
    /\ pc = "start"
    /\ chunk = <<>>
    /\ writes = <<>>
    /\ stdout = <<>>
    /\ exitStatus = <<>>
    /\ cached_roots = <<>>
    /\ git_root_calls = 0
    /\ call = NoCall
    /\ ret = <<>>

Next ==
    \/ Guard
    \/ WriteCcasm
    \/ WriteCompleter
    \/ WriteUnit
    \/ WriteIncludeCasm
    \/ WriteLibcasm
    \/ WriteIncludeCcasm
    \/ WriteLibccasm

Spec == Init /\ [][Next]_vars

(***************************************************************************)
(* The renderer and the header classification as pure functions: one call  *)
(* with arguments drawn from bounded sets.                                 *)
(***************************************************************************)
TargetPool == {<<"a", ".cpp">>, <<"b", ".hpp">>}
TargetLists == UNION {[1..n -> TargetPool] : n \in 0..MaxTargets}
RenderNames == {<<"libcasm">>, <<"casm", "-", "complete">>, <<"a", "-", "b", "-", "c">>}
RenderPrefixes == {<<"lib">>, <<"check">>}
RenderDirs == {<<"casm">>, <<"casm", SLASH, "misc">>}
KeywordValues == {t \in TargetLists : Len(t) <= 2}
KeywordLists ==
    {<<>>}
        \cup {<< <<<<"SOURCES">>, v>> >> : v \in KeywordValues}
        \cup {<< <<<<"SOURCES">>, v>>, <<<<"LDADD">>, w>> >> : v \in KeywordValues, w \in KeywordValues}
        \cup {<< <<<<"LDADD">>, w>>, <<<<"SOURCES">>, v>> >> : v \in KeywordValues, w \in KeywordValues}
ClassifiedPaths ==
    Range(Universe)
        \cup {EigenDir \o <<SLASH, "Dense", ".h">>, EigenDir \o <<SLASH, "src", SLASH, "Core">>,
              <<"include", SLASH, "casm", SLASH, "misc", SLASH, "bar", ".hh">>,
              <<"foo", ".cpp">>, <<"foo", ".hpp">>}

CallBasic ==
    /\ call.fn = "none"
    /\ \E variable \in RenderNames, operator \in {"=", "+="}, targets \in TargetLists :
          /\ call' = [NoCall EXCEPT !.fn = "basic_maker_string", !.name = variable,
                                    !.operator = operator, !.targets = targets]
          /\ ret' = basic_maker_string(variable, operator, targets)
    /\ UNCHANGED <<fsVars, mainVars>>

CallLTLIBRARIES ==
    /\ call.fn = "none"
    /\ \E libname \in RenderNames, LT_prefix \in RenderPrefixes, kwargs \in KeywordLists :
          /\ call' = [NoCall EXCEPT !.fn = "make_add_to_LTLIBRARIES", !.name = libname,
                                    !.prefix = LT_prefix, !.kwargs = kwargs]
          /\ ret' = make_add_to_LTLIBRARIES(libname, LT_prefix, kwargs)
    /\ UNCHANGED <<fsVars, mainVars>>

CallPROGRAMS ==
    /\ call.fn = "none"
    /\ \E program_name \in RenderNames, PROGRAMS_prefix \in RenderPrefixes, kwargs \in KeywordLists :
          /\ call' = [NoCall EXCEPT !.fn = "make_add_to_PROGRAMS", !.name = program_name,
                                    !.prefix = PROGRAMS_prefix, !.kwargs = kwargs]
          /\ ret' = make_add_to_PROGRAMS(program_name, PROGRAMS_prefix, kwargs)
    /\ UNCHANGED <<fsVars, mainVars>>

CallEXTRA_DIST ==
    /\ call.fn = "none"
    /\ \E files \in TargetLists :
          /\ call' = [NoCall EXCEPT !.fn = "make_add_to_EXTRA_DIST", !.targets = files]
          /\ ret' = make_add_to_EXTRA_DIST(files)
    /\ UNCHANGED <<fsVars, mainVars>>

CallHEADERS ==
    /\ call.fn = "none"
    /\ \E includedir \in RenderDirs, files \in TargetLists :
          /\ call' = [NoCall EXCEPT !.fn = "make_HEADERS", !.name = includedir, !.targets = files]
          /\ ret' = make_HEADERS(includedir, files)
    /\ UNCHANGED <<fsVars, mainVars>>

\* the test make_include applies to each tracked file of the directory
CallIsHeader ==
    /\ call.fn = "none"
    /\ \E f \in ClassifiedPaths :
          /\ call' = [NoCall EXCEPT !.fn = "is_header", !.name = f]
          /\ ret' = <<IsHeaderFile(f)>>
    /\ UNCHANGED <<fsVars, mainVars>>

RenderInit ==
    /\ repo = ProjectDir
    /\ onDisk = AlwaysOnDisk
    /\ tracked = AlwaysTracked
    /\ order = "fwd"
    /\ content = [p \in OutputPaths |-> <<>>]
    /\ pc = "idle"
    /\ chunk = <<>>
    /\ writes = <<>>
    /\ stdout = <<>>
    /\ exitStatus = <<>>
    /\ cached_roots = <<>>
    /\ git_root_calls = 0
    /\ call = NoCall
    /\ ret = <<>>

RenderNext ==
    \/ CallBasic
    \/ CallLTLIBRARIES
    \/ CallPROGRAMS
    \/ CallEXTRA_DIST
    \/ CallHEADERS
    \/ CallIsHeader

RenderSpec == RenderInit /\ [][RenderNext]_vars

(***************************************************************************)
(* The fragment grammar, read back from a text: a declaration is a header  *)
(* line NAME OP \ and the indented target lines that follow it.            *)
(***************************************************************************)
IsTargetLine(l) == l # <<>> /\ l[1] = "    "
IsHeaderLine(l) ==
    /\ Len(l) >= 5
    /\ l[1] # "    "
    /\ SubSeq(l, Len(l) - 3, Len(l)) \in {<<" ", "=", " ", BSLASH>>, <<" ", "+=", " ", BSLASH>>}
HeaderVariable(l) == SubSeq(l, 1, Len(l) - 4)
TargetOf(l) ==
    IF l[Len(l)] = BSLASH THEN SubSeq(l, 2, Len(l) - 1) ELSE SubSeq(l, 2, Len(l))
\* the number of target lines right after line i
TargetCount(lines, i) ==
    CHOOSE n \in 0..(Len(lines) - i) :
        /\ \A j \in 1..n : IsTargetLine(lines[i + j])
        /\ n = Len(lines) - i \/ ~IsTargetLine(lines[i + n + 1])
Declarations(text) ==
    LET lines == splitlines(text)
        heads == Ascending({i \in 1..Len(lines) : IsHeaderLine(lines[i])})
    IN  [k \in 1..Len(heads) |->
            [variable |-> HeaderVariable(lines[heads[k]]),
             targets |-> [j \in 1..TargetCount(lines, heads[k]) |-> TargetOf(lines[heads[k] + j])]]]
NoEmptyDeclaration(text) ==
    LET decls == Declarations(text)
    IN  \A k \in 1..Len(decls) : decls[k].targets # <<>>

(***************************************************************************)
(* C1.  For a target list of length N >= 1, duplicates included,           *)
(* basic_maker_string returns one header line and N target lines, one      *)
(* target per line in input order, every line but the last ending with the *)
(* continuation marker.  It fails for a list that repeats its last target. *)
(***************************************************************************)
C1_OneLinePerTarget ==
    (call.fn = "basic_maker_string" /\ Len(call.targets) >= 1) =>
        LET lines == splitlines(ret)
            N == Len(call.targets)
        IN  /\ Len(lines) = N + 1
            /\ lines[1] = call.name \o <<" ", call.operator, " ", BSLASH>>
            /\ \A i \in 1..N :
                  lines[i + 1] = <<"    ">> \o call.targets[i]
                                     \o (IF i < N THEN <<BSLASH>> ELSE <<>>)

(***************************************************************************)
(* C2.  No helper emits a declaration with an empty target list: the       *)
(* output of make_add_to_LTLIBRARIES, make_add_to_PROGRAMS, make_HEADERS   *)
(* and make_add_to_EXTRA_DIST has no header line with zero target lines.   *)
(* As stated it fails for make_HEADERS; it holds for the other three.      *)
(***************************************************************************)
C2_Original ==
    call.fn \in {"make_add_to_LTLIBRARIES", "make_add_to_PROGRAMS", "make_HEADERS",
                 "make_add_to_EXTRA_DIST"}
        => NoEmptyDeclaration(ret)

\* C2, amended: the library, program and EXTRA_DIST helpers emit no declaration
\* with zero target lines, and make_HEADERS emits one exactly when its list is empty
C2_Amended ==
    /\ call.fn \in {"make_add_to_LTLIBRARIES", "make_add_to_PROGRAMS", "make_add_to_EXTRA_DIST"}
          => NoEmptyDeclaration(ret)
    /\ call.fn = "make_add_to_EXTRA_DIST" /\ call.targets = <<>> => ret = <<>>
    /\ call.fn \in {"make_add_to_LTLIBRARIES", "make_add_to_PROGRAMS"} =>
          Len(Declarations(ret)) =
              1 + Cardinality({i \in 1..Len(call.kwargs) : call.kwargs[i][2] # <<>>})
    /\ call.fn = "make_HEADERS" => (NoEmptyDeclaration(ret) <=> call.targets # <<>>)

C2_Witness ==
    /\ call.fn = "make_add_to_LTLIBRARIES"
    /\ Len(call.kwargs) = 2
    /\ call.kwargs[1][2] = <<>>
    /\ call.kwargs[2][2] # <<>>
    /\ Len(Declarations(ret)) = 2

(***************************************************************************)
(* C8.  A path is classified as a header by make_include if and only if    *)
(* its suffix is .h, .hh or .hpp, or it has no extension and lies inside   *)
(* include/casm/external/Eigen.  It fails for a file with an extension     *)
(* directly in that directory, and for an extensionless file deeper in it. *)
(***************************************************************************)
HasNoExtension(f) == basename(f)[Len(basename(f))] \notin DotAtoms
InsideEigen(f) == Under(f, EigenDir)
C8_HeaderIff ==
    call.fn = "is_header" =>
        (ret[1] <=> (\/ \E e \in {".h", ".hh", ".hpp"} : call.name[Len(call.name)] = e
                     \/ HasNoExtension(call.name) /\ InsideEigen(call.name)))

(***************************************************************************)
(* C10.  make_add_to_LTLIBRARIES and make_add_to_PROGRAMS name the         *)
(* declaration of every keyword with a non-empty list by the name with     *)
(* each hyphen rewritten to an underscore (plus _la for a library), an     *)
(* underscore and the keyword; the name registered in the LTLIBRARIES or   *)
(* PROGRAMS list keeps its hyphens.                                        *)
(***************************************************************************)
Underscored(name) == [i \in 1..Len(name) |-> IF name[i] = "-" THEN "_" ELSE name[i]]
C10_KeywordVariables ==
    call.fn \in {"make_add_to_LTLIBRARIES", "make_add_to_PROGRAMS"} =>
        LET decls == Declarations(ret)
            isLib == call.fn = "make_add_to_LTLIBRARIES"
            kept == SelectSeq(call.kwargs, LAMBDA kw : kw[2] # <<>>)
            stem == Underscored(call.name) \o (IF isLib THEN <<"_", "la">> ELSE <<>>)
        IN  /\ Len(decls) = 1 + Len(kept)
            /\ decls[1].variable =
                   call.prefix \o <<"_", IF isLib THEN "LTLIBRARIES" ELSE "PROGRAMS">>
            /\ decls[1].targets = << call.name \o (IF isLib THEN <<".la">> ELSE <<>>) >>
            /\ \A k \in 1..Len(kept) :
                  /\ decls[k + 1].variable = stem \o <<"_">> \o kept[k][1]
                  /\ "-" \notin Range(decls[k + 1].variable)

C10_Witness ==
    /\ call.fn = "make_add_to_PROGRAMS"
    /\ call.name = <<"casm", "-", "complete">>
    /\ Len(call.kwargs) = 2
    /\ call.kwargs[1][2] # <<>>
    /\ call.kwargs[2][2] # <<>>
    /\ Declarations(ret)[1].targets = << <<"casm", "-", "complete">> >>
    /\ Declarations(ret)[2].variable = <<"casm", "_", "complete", "_">> \o call.kwargs[1][1]

(***************************************************************************)
(* Claims about a run of main.  chunk is the text of the latest write, so  *)
(* a property of chunk in every state is a property of every file written. *)
(***************************************************************************)
IsPathDeclaration(variable) ==
    \/ EndsWith(variable, <<"_", "SOURCES">>)
    \/ EndsWith(variable, <<"_", "HEADERS">>)
    \/ variable = <<"EXTRA_DIST">>
EmittedPaths(text) ==
    LET decls == Declarations(text)
    IN  UNION {Range(decls[k].targets) :
                  k \in {j \in 1..Len(decls) : IsPathDeclaration(decls[j].variable)}}
Generated == writes # <<>>

(***************************************************************************)
(* C3.  Every file path written into a SOURCES, HEADERS or EXTRA_DIST list *)
(* of a generated fragment is in the tracked-file-set; an untracked file   *)
(* on disk under a scanned root appears in no output.  It fails for the    *)
(* sources make_lib collects, which are never asked about.                 *)
(***************************************************************************)
C3_OnlyTrackedPaths ==
    Generated =>
        /\ EmittedPaths(chunk) \subseteq tracked
        /\ \A f \in onDisk \ tracked :
              \A l \in Range(splitlines(chunk)) : ~Contains(l, f)

(***************************************************************************)
(* C4.  A run from a directory that is no checkout, or whose top-level     *)
(* directory is not CASMcode-dev, prints the diagnostic and ends with a    *)
(* non-zero exit status.  It fails: exit() is called without a status.     *)
(***************************************************************************)
Diagnostic == <<"This script must be run from the root directory of the CASMcode-dev repo.">>
C4_FailureStatus ==
    (BadRunDirectory /\ pc # "start") =>
        /\ pc = "exited"
        /\ Diagnostic \in Range(stdout)
        /\ exitStatus # <<>>
        /\ exitStatus # <<0>>

(***************************************************************************)
(* C5.  The run-directory guard precedes all generation: where the guard   *)
(* fails the run stops at once, no generation step runs and no output file *)
(* is written; an output file is written only where the guard passed.      *)
(***************************************************************************)
C5_GuardFirst ==
    /\ BadRunDirectory =>
          /\ pc \in {"start", "exited"}
          /\ writes = <<>>
          /\ chunk = <<>>
          /\ Range(stdout) \subseteq {Diagnostic}
          /\ git_root_calls = 0
    /\ Generated => ~BadRunDirectory
    /\ (pc \notin {"start", "exited"}) => ~BadRunDirectory

C5_Witness == pc = "exited" /\ repo = OtherDir /\ stdout = <<Diagnostic>> /\ writes = <<>>

(***************************************************************************)
(* C6.  A successful run writes exactly six fixed-path output files, each  *)
(* opened in overwrite mode and written once with the newly generated      *)
(* text.  The run writes seven.                                            *)
(***************************************************************************)
WrittenOnce(n) ==
    /\ Len(writes) = n
    /\ Cardinality({writes[i].path : i \in 1..Len(writes)}) = n
    /\ {writes[i].path : i \in 1..Len(writes)} \subseteq OutputPaths
    /\ \A i \in 1..Len(writes) :
          /\ writes[i].mode = "w"
          /\ content[writes[i].path] = writes[i].text
C6_Original == pc = "done" => WrittenOnce(6)

\* C6, amended: a successful run writes exactly seven fixed-path output files, each
\* opened in overwrite mode and written once with the newly generated text
C6_SevenFiles ==
    /\ pc = "done" =>
          /\ WrittenOnce(7)
          /\ {writes[i].path : i \in 1..Len(writes)} = OutputPaths
    /\ \A i \in 1..Len(writes) : content[writes[i].path] = writes[i].text

C6_Witness == pc = "done" /\ Len(writes) = 7 /\ content[src_ccasm_target] = chunk

(***************************************************************************)
(* C7.  In make_recursive_include, whatever the directory is called: a     *)
(* directory with no tracked header file adds no header fragment to the    *)
(* output, and a directory with one tracked .hpp file adds one install     *)
(* directory line and one HEADERS declaration with that one entry.  It     *)
(* fails for a directory whose path repeats the search root.               *)
(***************************************************************************)
include_casm == <<"include", SLASH, "casm">>
C7_HeadersIn(d) ==
    SelectSeq(DiskSeq, LAMBDA f : dirname(f) = d /\ f \in tracked /\ IsHeaderFile(f))
C7_Flattened(d) == Replace(SubSeq(d, 3, Len(d)), SLASH, "_")
C7_DirectoryLines(text, d) ==
    LET lines == splitlines(text)
    IN  {i \in 1..Len(lines) :
            StartsWith(lines[i], C7_Flattened(d) \o <<"_", "include", "dir", "=">>)}
C7_HeaderDeclarations(text, d) ==
    LET decls == Declarations(text)
    IN  {k \in 1..Len(decls) :
            decls[k].variable = C7_Flattened(d) \o <<"_", "include", "_", "HEADERS">>}
C7_HeaderDirectories ==
    pc = "libcasm" =>
        \A d \in Range(walk(include_casm)) :
            LET headers == C7_HeadersIn(d)
                decls == Declarations(chunk)
            IN  /\ headers = <<>> =>
                      /\ C7_DirectoryLines(chunk, d) = {}
                      /\ C7_HeaderDeclarations(chunk, d) = {}
                /\ (Len(headers) = 1 /\ EndsWith(headers[1], <<".hpp">>)) =>
                      /\ Cardinality(C7_DirectoryLines(chunk, d)) = 1
                      /\ Cardinality(C7_HeaderDeclarations(chunk, d)) = 1
                      /\ \A k \in C7_HeaderDeclarations(chunk, d) : decls[k].targets = headers

(***************************************************************************)
(* C9.  For every directory D passed to make_unit_test: SOURCES is the     *)
(* tracked entries of D, .gitignore left out, that end in _test.cpp, in    *)
(* listing order, then tests/unit/gtest_main_run_all.cpp; EXTRA_DIST is    *)
(* every other tracked entry but .gitignore, in listing order; the two are *)
(* disjoint; untracked entries are in neither; the executable is           *)
(* casm_unit_<basename of D>.                                              *)
(***************************************************************************)
C9_Entries(D) == [i \in 1..Len(listdir(D)) |-> D \o <<SLASH>> \o listdir(D)[i]]
C9_Kept(D) ==
    SelectSeq(C9_Entries(D), LAMBDA f : f \in tracked /\ basename(f) # <<".gitignore">>)
C9_Sources(D) ==
    SelectSeq(C9_Kept(D), LAMBDA f : EndsWith(f, <<"_", "test", ".cpp">>))
        \o << <<"tests", SLASH, "unit", SLASH, "gtest", "_", "main", "_", "run", "_", "all", ".cpp">> >>
C9_Extra(D) == SelectSeq(C9_Kept(D), LAMBDA f : ~EndsWith(f, <<"_", "test", ".cpp">>))
C9_Fragment(decls, k, D) ==
    LET name == <<"casm", "_", "unit", "_">> \o basename(D)
    IN  /\ k + 4 <= Len(decls)
        /\ decls[k].variable = <<"TESTS">>
        /\ decls[k] = [variable |-> <<"TESTS">>, targets |-> <<name>>]
        /\ decls[k + 1] = [variable |-> <<"check", "_", "PROGRAMS">>, targets |-> <<name>>]
        /\ decls[k + 2] = [variable |-> name \o <<"_", "SOURCES">>, targets |-> C9_Sources(D)]
        /\ decls[k + 3].variable = name \o <<"_", "LDADD">>
        /\ decls[k + 4].variable = name \o <<"_", "CPPFLAGS">>
        /\ IF C9_Extra(D) = <<>>
           THEN k + 5 > Len(decls) \/ decls[k + 5].variable # <<"EXTRA_DIST">>
           ELSE /\ k + 5 <= Len(decls)
                /\ decls[k + 5] = [variable |-> <<"EXTRA_DIST">>, targets |-> C9_Extra(D)]
        /\ Range(C9_Sources(D)) \cap Range(C9_Extra(D)) = {}
        /\ \A f \in Range(C9_Entries(D)) \ tracked :
              f \notin Range(decls[k + 2].targets)
                  /\ (k + 5 <= Len(decls) => f \notin Range(decls[k + 5].targets))
C11_RootQueriedOnce == git_root_calls <= Cardinality(DOMAIN cached_roots)

====
